---------------------------- MODULE Spec2Model ----------------------------
(***************************************************************************)
(* The service worker generated by vite-plugin-offline-first               *)
(* (packages/vite-plugin-offline-first/src/index.ts, generateServiceWorker)*)
(* run by the browser's service worker machinery: the install, activate    *)
(* and fetch listeners of successive builds over one origin's cache        *)
(* storage.                                                                *)
(*                                                                         *)
(* Every asynchronous step of a listener is one action.  A cache storage   *)
(* request (open, keys, match, delete) takes effect in the step that       *)
(* issues it: the storage backend serves the requests of an origin in the  *)
(* order they arrive.  cache.put and cache.addAll take effect when their   *)
(* bodies have arrived, in a later step.  A fetch event that is over leaves *)
(* its slot before the next step is taken; that step changes nothing the   *)
(* workers can read.                                                       *)
(*                                                                         *)
(* The plugin itself (offlineFirstPlugin: its options, the hash it draws,  *)
(* the files it emits, its dev middleware and the script it puts into the  *)
(* page) is the specification SpecBuild; a text there is a sequence of      *)
(* pieces, so that what the worker reads from its generated source is      *)
(* computed and not assumed.                                               *)
(***************************************************************************)
EXTENDS Integers, Sequences, FiniteSets, TLC

(* ------------------------------ bounds -------------------------------- *)

\* Builds deployed to the origin, one generated worker each.
MaxBuilds == 2

\* Fetch events that may be in progress at the same time.
MaxFetch == 2

\* Cache storage requests the backend may fail (reject) in one run.
MaxFaults == 1

Workers == 1 .. MaxBuilds

Slots == 1 .. MaxFetch

(* --------------------------- configuration ---------------------------- *)

\* index.ts:30, the default base name of the namespace.
cacheName == "offline-app-cache"

\* index.ts:33, the default of the updateEventName option.
updateEventName == "offline-first:update"

\* index.ts:43-44 and 66-67: `${cacheName}-${buildHash}`; the build hash of
\* build w is taken to be w, so that different builds have different names.
hashedCacheName(w) == <<cacheName, w>>

\* The constant CACHE_NAME of the worker generated by build w (index.ts:127).
CACHE_NAME(w) == hashedCacheName(w)

\* A cache of the same origin that the page itself created.
AppCache == <<"app-data", 0>>

Names == {CACHE_NAME(w) : w \in Workers} \cup {AppCache}

\* The document the offline fallback serves to navigations (index.ts:215).
RootDocument == "/index.html"

\* The precacheAssets option (index.ts:31): the default list, and a list
\* without the root document.
PrecacheLists == { <<"/index.html">>, <<"/data.json", "/app.js">> }

(* ----------------------------- requests ------------------------------- *)

HttpProtocol == <<"h", "t", "t", "p", ":">>

HttpsProtocol == <<"h", "t", "t", "p", "s", ":">>

ExtensionProtocol == <<"c", "h", "r", "o", "m", "e", "-", "e", "x", "t", ":">>

Req(m, p, u, md) == [method |-> m, protocol |-> p, url |-> u, mode |-> md]

\* The requests a page of the origin sends.
Requests ==
  { Req("GET", HttpsProtocol, "/index.html", "navigate"),
    Req("GET", HttpProtocol, "/about", "navigate"),
    Req("GET", HttpsProtocol, "/data.json", "cors"),
    Req("GET", HttpsProtocol, "//cdn/lib.js", "no-cors"),
    Req("POST", HttpsProtocol, "/data.json", "cors"),
    Req("GET", ExtensionProtocol, "/data.json", "cors") }

NoRequest == Req("", <<>>, "", "")

\* String.prototype.startsWith
startsWith(s, prefix) ==
  /\ Len(s) >= Len(prefix)
  /\ SubSeq(s, 1, Len(prefix)) = prefix

(* ----------------------------- responses ------------------------------ *)

Resp(s, t, b) == [status |-> s, type |-> t, body |-> b]

\* No response (undefined).
NoResp == Resp(-1, "none", "")

\* The network fetch rejected.
NetworkError == Resp(-2, "error", "")

\* The promise given to respondWith rejected.
Rejected == Resp(-3, "error", "rejected")

Versions == {"v1", "v2"}

\* What the network can answer to a request: a no-cors request of another
\* origin gets an opaque response (its status reads 0); the server of the
\* origin has no document for the route /about, and for every other URL it
\* answers 200 with one of the versions, or 404.
NetResponses(req) ==
  IF req.mode = "no-cors" THEN {Resp(0, "opaque", "")}
  ELSE IF req.url = "/about" THEN {Resp(404, "basic", "not found")}
  ELSE {Resp(200, "basic", v) : v \in Versions} \cup {Resp(404, "basic", "not found")}

\* index.ts:222-225
OfflineResponse == Resp(503, "default", "Offline - Resource not found")

(* ------------------------------- state -------------------------------- *)

VARIABLES
  PRECACHE_ASSETS,  \* the constant of the generated workers (index.ts:128)
  cacheKeys,        \* the names of the origin's caches, in creation order
  store,            \* store[n][u]: the response cache n holds for URL u
  state,            \* state[w]: the lifecycle state of worker w
  skipWaitingFlag,  \* skipWaitingFlag[w]: worker w called self.skipWaiting()
  inst,             \* inst[w]: the cache handle of w's install listener
  act,              \* act[w]: the deletes w's activate listener still awaits
  claim,            \* claim[w]: w's clients.claim() has not taken effect yet
  controller,       \* the worker that controls the open page (0: none)
  fh,               \* fh[i]: the fetch event in slot i
  faults,           \* cache storage requests failed so far
  previous,         \* previous[w]: the active worker when w's activate event
                    \* was dispatched (0: none)
  activatePromise,  \* activatePromise[w]: the promise w's activate listener
                    \* gave to waitUntil
  message,          \* the message event a worker is handling
  clientMessages,   \* the messages the workers posted to the open page
  options,          \* the options the plugin was called with (index.ts:27)
  buildHash,        \* the hash of the last generation (index.ts:36)
  bundles,          \* the files each run of generateBundle emitted
  devServer,        \* the worker source the dev middleware serves
  devReply,         \* what the dev middleware did with the last request
  html,             \* the index.html that transformIndexHtml returned
  pageEvent         \* the last message the page's script got, and its effect

\* The state of the plugin at build time.
buildVars == << options, buildHash, bundles, devServer, devReply, html, pageEvent >>

\* The state of the workers, the caches and the page at run time.
workerVars ==
  << PRECACHE_ASSETS, cacheKeys, store, state, skipWaitingFlag, inst, act,
     claim, controller, fh, faults, previous, activatePromise, message,
     clientMessages >>

vars == << workerVars, buildVars >>

Range(s) == {s[k] : k \in 1 .. Len(s)}

\* A cache without entries; a cache is a function from the URLs it has an
\* entry for to the responses stored.
EmptyCache == <<>>

\* cache.match(url): the entry stored for the URL, undefined when none is.
cacheMatch(cache, url) == IF url \in DOMAIN cache THEN cache[url] ELSE NoResp

\* A fetch event slot that holds no event.
FreeSlot ==
  [pc |-> "free", w |-> 0, req |-> NoRequest, net |-> NoResp, out |-> NoResp,
   write |-> "none"]

\* The registration's active worker (0: none).
ActiveWorker ==
  IF \E w \in Workers : state[w] \in {"activating", "activated"}
  THEN CHOOSE w \in Workers : state[w] \in {"activating", "activated"}
  ELSE 0

\* Slot i holds an event that is over: the page has its answer and no cache
\* write of the event is pending.
Over(i) ==
  /\ fh[i].pc \in {"done", "passthrough"}
  /\ fh[i].write \notin {"opened", "orphan"}

\* No message event is being handled.
NoMessage == [w |-> 0, data |-> <<>>, skipWaiting |-> FALSE]

\* No event that is over is still in its slot, and no message event is being
\* handled: a listener that does not wait runs to its end in one piece.
Quiet == (\A i \in Slots : ~Over(i)) /\ message = NoMessage

\* Worker w has an event whose respondWith promise is still pending.
HasPendingEvents(w) ==
  \E i \in Slots : fh[i].w = w /\ fh[i].pc \in {"fetching", "lookupIndex"}

(* --------------------------- cache storage ---------------------------- *)

\* caches.open(name): the cache is created when the origin has none of
\* that name.
cachesOpen(keys, name) ==
  IF name \in Range(keys) THEN keys ELSE Append(keys, name)

\* caches.delete(name): the name is removed from the list.
cachesDelete(keys, name) == SelectSeq(keys, LAMBDA n : n # name)

\* caches.match(url): the entry of the first cache, in creation order, that
\* holds one for the URL; undefined when none does.
cachesMatch(url) ==
  LET hits == {k \in 1 .. Len(cacheKeys) : url \in DOMAIN store[cacheKeys[k]]}
  IN  IF hits = {} THEN NoResp
      ELSE store[cacheKeys[CHOOSE k \in hits : \A j \in hits : k <= j]][url]

\* The storage backend may fail one more request.
MayFail == faults < MaxFaults

(* ------------------------------ the build ----------------------------- *)

\* A text is a sequence of pieces: a piece is a run of characters that mean
\* nothing to JavaScript or JSON, or one character that does (a quote, a
\* double quote, a backslash).  An option is the set of the values supplied
\* for it: empty when the option is left out.
Quote == "'"
DoubleQuote == "\""
Backslash == "\\"

\* The options the plugin is called with.
OptionValues ==
  [ cacheName : { {}, {<<"my-app">>}, {<<"joe", Quote, "s">>} },
    precacheAssets : { {}, {<< <<"/data.json">>, <<"/app.js">> >>},
                       {<< <<"/a", DoubleQuote, "b", Backslash, ".js">> >>} },
    enableUpdateCheck : { {}, {TRUE}, {FALSE} },
    updateEventName : { {}, {<<"app:update">>}, {<<"joe", Quote, "s:update">>} } ]

\* A destructuring default: the value supplied, the default when none is.
orDefault(option, default) ==
  IF option = {} THEN default ELSE CHOOSE v \in option : TRUE

\* The four locals the plugin destructures from its options.
defaults(opts) ==
  [ cacheName |-> orDefault(opts.cacheName, <<cacheName>>),
    precacheAssets |-> orDefault(opts.precacheAssets, << <<RootDocument>> >>),
    enableUpdateCheck |-> orDefault(opts.enableUpdateCheck, TRUE),
    updateEventName |-> orDefault(opts.updateEventName, <<updateEventName>>) ]

\* Math.random().toString(36).substr(2, 9): up to nine digits in base 36,
\* fewer when the expansion is short (0.5 gives "i", 0 gives "").
Hashes == { <<"4fzyo82mv">>, <<"i">>, <<>> }
NoHash == <<"undefined">>

\* JSON.stringify of a string: double quotes and backslashes are escaped.
RECURSIVE escape(_)
escape(text) ==
  IF text = <<>> THEN <<>>
  ELSE IF Head(text) \in {DoubleQuote, Backslash}
       THEN <<Backslash, Head(text)>> \o escape(Tail(text))
       ELSE <<Head(text)>> \o escape(Tail(text))

\* JSON.stringify of an array of strings.
JSONstringify(list) ==
  [k \in 1 .. Len(list) |-> <<DoubleQuote>> \o escape(list[k]) \o <<DoubleQuote>>]

\* generateServiceWorker: the source of the worker, its four constants.  The
\* names are put between quotes as they are; the listeners that follow are
\* the same text for every call.
generateServiceWorker(name, assets, enable, eventName) ==
  [ CACHE_NAME |-> <<Quote>> \o name \o <<Quote>>,
    PRECACHE_ASSETS |-> JSONstringify(assets),
    ENABLE_UPDATE_CHECK |-> IF enable THEN <<"true">> ELSE <<"false">>,
    UPDATE_EVENT |-> <<Quote>> \o eventName \o <<Quote>> ]

\* generateUpdateChecker: the source of the update checker.  It posts
\* CACHE_UPDATED to the controller every five minutes; its argument is not
\* used.
generateUpdateChecker(eventName) ==
  [ posts |-> <<"CACHE_UPDATED">>, every |-> 5 * 60 * 1000 ]

\* A namespace that is the base name alone.
hashedNameNoHash(name, hash) == name

\* `${cacheName}-${buildHash}`
hashedName(name, hash) == name \o <<"-">> \o hash

\* The worker source the plugin generates with the hash at hand.
swContent(opts, hash) ==
  LET d == defaults(opts)
  IN  generateServiceWorker(hashedName(d.cacheName, hash), d.precacheAssets,
                            d.enableUpdateCheck, d.updateEventName)

\* What the JavaScript engine makes of the source of a constant.
SyntaxError == <<"SyntaxError">>

\* A string between quotes: it ends at the first quote that follows the
\* opening one, and what comes after that quote must be the end of the
\* statement.
evalString(literal) ==
  LET closing == {k \in 2 .. Len(literal) : literal[k] = Quote}
      k == CHOOSE c \in closing : \A o \in closing : c <= o
  IN  IF Len(literal) < 2 \/ literal[1] # Quote \/ closing = {}
      THEN SyntaxError
      ELSE IF k # Len(literal) THEN SyntaxError
      ELSE SubSeq(literal, 2, k - 1)

\* A string between double quotes: a backslash takes the next character as
\* it is.
RECURSIVE unescape(_)
unescape(text) ==
  IF text = <<>> THEN <<>>
  ELSE IF Head(text) = Backslash /\ Len(text) >= 2
       THEN <<text[2]>> \o unescape(Tail(Tail(text)))
       ELSE <<Head(text)>> \o unescape(Tail(text))

evalArray(source) ==
  [k \in 1 .. Len(source) |-> unescape(SubSeq(source[k], 2, Len(source[k]) - 1))]

\* The constants the worker has when it runs a source.
workerConstants(source) ==
  [ CACHE_NAME |-> evalString(source.CACHE_NAME),
    PRECACHE_ASSETS |-> evalArray(source.PRECACHE_ASSETS),
    ENABLE_UPDATE_CHECK |-> source.ENABLE_UPDATE_CHECK = <<"true">>,
    UPDATE_EVENT |-> evalString(source.UPDATE_EVENT) ]

\* The elements of an index.html.
Tag(t) == [tag |-> t, register |-> "", type |-> <<>>]

\* A script that registers the worker under a path of the cache name.
swRegistrationScriptNamedPath(opts) ==
  [tag |-> "script",
   register |-> IF opts.cacheName = {} THEN "/sw.js" ELSE "/my-app/sw.js",
   type |-> <<Quote>> \o defaults(opts).updateEventName \o <<Quote>>]

\* The script the plugin injects: it registers the worker and reloads the
\* page on a message of the configured type.
swRegistrationScript(opts) ==
  [tag |-> "script", register |-> "/sw.js",
   type |-> <<Quote>> \o defaults(opts).updateEventName \o <<Quote>>]

Pages ==
  { <<Tag("<head>"), Tag("</head>"), Tag("<body>")>>,
    <<Tag("<head>"), Tag("</head>"), Tag("<body>"), Tag("</head>")>>,
    <<Tag("<body>")>> }

\* html.replace('</head>', ...): the first '</head>' only.
replace(page, tag, insert) ==
  LET at == {k \in 1 .. Len(page) : page[k] = Tag(tag)}
      k == CHOOSE c \in at : \A o \in at : c <= o
  IN  IF at = {} THEN page
      ELSE SubSeq(page, 1, k - 1) \o insert \o SubSeq(page, k + 1, Len(page))

\* The requests the dev server gets.
DevUrls == {"/sw.js", "/sw.js?v=2", "/index.html", "/assets/sw.js"}

NoSource == [CACHE_NAME |-> <<>>, PRECACHE_ASSETS |-> <<>>,
             ENABLE_UPDATE_CHECK |-> <<>>, UPDATE_EVENT |-> <<>>]
NoReply == [url |-> "", contentType |-> "", body |-> NoSource]
NoOptions == [cacheName |-> {}, precacheAssets |-> {},
              enableUpdateCheck |-> {}, updateEventName |-> {}]

\* The data of the messages a page gets: the type of the message, or none
\* (the data is null).
PageMessages ==
  { {}, {<<updateEventName>>}, {<<"app:update">>}, {<<"CACHE_UPDATED">>},
    {<<"joe", Quote, "s:update">>} }

NoPageEvent == [data |-> {}, reloaded |-> FALSE, handled |-> FALSE]

\* The message listener of the injected script (index.ts:105-110): it calls
\* window.location.reload() when event.data.type is the string its source
\* has between the quotes.  A script whose source does not parse sets up no
\* listener; reading the type of null throws.
reloads(script, data) ==
  /\ evalString(script.type) # SyntaxError
  /\ data # {}
  /\ data = {evalString(script.type)}

\* The plugin is called without options and none of its hooks has run.
NoBuild ==
  /\ options = NoOptions
  /\ buildHash = NoHash
  /\ bundles = <<>>
  /\ devServer = NoSource
  /\ devReply = NoReply
  /\ html = <<>>
  /\ pageEvent = NoPageEvent

(* ------------------------------ initial ------------------------------- *)

\* No worker is registered yet.  The origin may already hold a cache of the
\* page's own.
Init ==
  /\ PRECACHE_ASSETS \in PrecacheLists
  /\ \E app \in BOOLEAN :
       /\ cacheKeys = IF app THEN <<AppCache>> ELSE <<>>
       /\ store = [n \in Names |->
                     IF app /\ n = AppCache
                     THEN [u \in {"/data.json"} |-> Resp(200, "basic", "app")]
                     ELSE EmptyCache]
  /\ state = [w \in Workers |-> "parsed"]
  /\ skipWaitingFlag = [w \in Workers |-> FALSE]
  /\ inst = [w \in Workers |-> "idle"]
  /\ act = [w \in Workers |-> {}]
  /\ claim = [w \in Workers |-> FALSE]
  /\ controller = 0
  /\ fh = [i \in Slots |-> FreeSlot]
  /\ faults = 0
  /\ previous = [w \in Workers |-> 0]
  /\ activatePromise = [w \in Workers |-> "none"]
  /\ message = NoMessage
  /\ clientMessages = <<>>
  /\ NoBuild

(* ------------------------------ install ------------------------------- *)

\* The page registers /sw.js of build w (index.ts:99) and the browser
\* dispatches its install event (index.ts:144-153).  Builds are installed in
\* order, one at a time.  The listener calls caches.open(CACHE_NAME), which
\* creates the cache or fails, and then self.skipWaiting().
InstallEvent(w) ==
  /\ Quiet
  /\ state[w] = "parsed"
  /\ \A v \in Workers : v < w => state[v] \notin {"parsed", "installing"}
  /\ state' = [state EXCEPT ![w] = "installing"]
  /\ skipWaitingFlag' = [skipWaitingFlag EXCEPT ![w] = TRUE]
  /\ \E ok \in BOOLEAN :
       IF ok
       THEN /\ cacheKeys' = cachesOpen(cacheKeys, CACHE_NAME(w))
            /\ inst' = [inst EXCEPT ![w] = "opened"]
            /\ faults' = faults
       ELSE /\ MayFail
            /\ faults' = faults + 1
            /\ inst' = [inst EXCEPT ![w] = "rejected"]
            /\ cacheKeys' = cacheKeys
  /\ UNCHANGED <<buildVars, PRECACHE_ASSETS, clientMessages, message, previous, activatePromise,
                 store, act, claim, controller, fh>>

\* The content the server holds when build w is deployed.
Deployed(w) == IF w % 2 = 1 THEN "v1" ELSE "v2"

\* What cache.addAll(PRECACHE_ASSETS) stores: a response for every asset.
addAll(cache, v) ==
  [u \in DOMAIN cache \cup Range(PRECACHE_ASSETS) |->
     IF u \in Range(PRECACHE_ASSETS) THEN Resp(200, "basic", v) ELSE cache[u]]

\* Every asset of the list was fetched with an ok status: addAll stores them
\* all at once (into the cache it holds, which is the origin's cache of that
\* name unless that was deleted meanwhile), the promise given to waitUntil
\* fulfils and the worker is installed.  A worker that was waiting becomes
\* redundant.
InstallDone(w) ==
  /\ Quiet
  /\ state[w] = "installing"
  /\ inst[w] \in {"opened", "orphan"}
  /\ store' = IF inst[w] = "opened"
              THEN [store EXCEPT ![CACHE_NAME(w)] = addAll(@, Deployed(w))]
              ELSE store
  /\ state' = [x \in Workers |->
                 IF x = w THEN "installed"
                 ELSE IF state[x] = "installed" THEN "redundant" ELSE state[x]]
  /\ inst' = [inst EXCEPT ![w] = "idle"]
  /\ UNCHANGED <<buildVars, PRECACHE_ASSETS, clientMessages, message, previous, activatePromise,
                 cacheKeys, skipWaitingFlag, act, claim,
                 controller, fh, faults>>

\* caches.open rejected, or the fetch of some asset failed or had a status
\* that is not ok: addAll stores nothing, the promise given to waitUntil
\* rejects and the worker becomes redundant.
InstallFailed(w) ==
  /\ Quiet
  /\ state[w] = "installing"
  /\ inst[w] \in {"opened", "orphan", "rejected"}
  /\ state' = [state EXCEPT ![w] = "redundant"]
  /\ inst' = [inst EXCEPT ![w] = "idle"]
  /\ UNCHANGED <<buildVars, PRECACHE_ASSETS, clientMessages, message, previous, activatePromise,
                 cacheKeys, store, skipWaitingFlag, act,
                 claim, controller, fh, faults>>

(* ------------------------------ activate ------------------------------ *)

\* A listener that deletes every cache, its own too.
StaleNamesAll(keys, own) == Range(keys)

\* The names the activate listener deletes (index.ts:161-166).
StaleNames(keys, own) == {n \in Range(keys) : n # own}

\* A promotion that does not wait for the events of the active worker and
\* lets it run on.
ActivateEventOldRunsOn(w) ==
  LET a == ActiveWorker IN
  /\ Quiet
  /\ state[w] = "installed"
  /\ \/ a = 0
     \/ /\ a # 0
        /\ state[a] = "activated"
        /\ skipWaitingFlag[w]
  /\ state' = [x \in Workers |->
                 IF x = w THEN "activating"
                 ELSE IF x = a THEN "redundant" ELSE state[x]]
  /\ act' = [act EXCEPT ![w] = StaleNames(cacheKeys, CACHE_NAME(w))]
  /\ activatePromise' = [activatePromise EXCEPT ![w] = "pending"]
  /\ previous' = [previous EXCEPT ![w] = a]
  /\ claim' = [x \in Workers |-> x = w]
  /\ UNCHANGED <<buildVars, PRECACHE_ASSETS, clientMessages, message,
                 cacheKeys, store, skipWaitingFlag, inst,
                 controller, faults, fh>>

\* The waiting worker w is promoted: there is no active worker, or the
\* active worker has finished its events and w has called skipWaiting.  The
\* worker it replaces is terminated, which drops the cache writes it has
\* not finished, and becomes redundant.  The activate listener
\* (index.ts:156-171) calls caches.keys() and self.clients.claim().
ActivateEvent(w) ==
  LET a == ActiveWorker IN
  /\ Quiet
  /\ state[w] = "installed"
  /\ \/ a = 0
     \/ /\ a # 0
        /\ state[a] = "activated"
        /\ ~HasPendingEvents(a)
        /\ skipWaitingFlag[w]
  /\ state' = [x \in Workers |->
                 IF x = w THEN "activating"
                 ELSE IF x = a THEN "redundant" ELSE state[x]]
  /\ fh' = [i \in Slots |-> IF fh[i].w = a /\ a # 0 THEN FreeSlot ELSE fh[i]]
  /\ act' = [act EXCEPT ![w] = StaleNames(cacheKeys, CACHE_NAME(w))]
  /\ activatePromise' = [activatePromise EXCEPT ![w] = "pending"]
  /\ previous' = [previous EXCEPT ![w] = a]
  /\ claim' = [x \in Workers |-> x = w]
  /\ UNCHANGED <<buildVars, PRECACHE_ASSETS, clientMessages, message,
                 cacheKeys, store, skipWaitingFlag, inst,
                 controller, faults>>

\* One caches.delete(name) of the listener: the cache is removed with its
\* entries (a name that is gone already is no error), or the request fails,
\* and then Promise.all rejects (index.ts:160).  The deletes were all issued
\* by one callback and the storage serves them before any request issued
\* later, so the others have been served too when the rejection is seen.
\* A listener that holds the deleted cache keeps it, detached from the name.
DeleteStale(w, n) ==
  /\ Quiet
  /\ state[w] = "activating"
  /\ n \in act[w]
  /\ act' = [act EXCEPT ![w] = @ \ {n}]
  /\ \E ok \in BOOLEAN :
       IF ok
       THEN /\ cacheKeys' = cachesDelete(cacheKeys, n)
            /\ store' = [store EXCEPT ![n] = EmptyCache]
            /\ inst' = [x \in Workers |->
                          IF CACHE_NAME(x) = n /\ inst[x] = "opened"
                          THEN "orphan" ELSE inst[x]]
            /\ fh' = [i \in Slots |->
                        IF fh[i].w # 0 /\ CACHE_NAME(fh[i].w) = n /\ fh[i].write = "opened"
                        THEN [fh[i] EXCEPT !.write = "orphan"] ELSE fh[i]]
            /\ faults' = faults
            /\ activatePromise' = activatePromise
       ELSE /\ MayFail
            /\ faults' = faults + 1
            /\ activatePromise' = [activatePromise EXCEPT ![w] = "rejected"]
            /\ UNCHANGED <<cacheKeys, store, inst, fh>>
  /\ UNCHANGED <<buildVars, PRECACHE_ASSETS, clientMessages, message, previous,
                 state, skipWaitingFlag, claim, controller>>

\* Every delete has been served and the promise given to waitUntil has
\* settled: it is fulfilled when every delete was, rejected when one was
\* rejected.  The worker is activated either way.
ActivateDone(w) ==
  /\ Quiet
  /\ state[w] = "activating"
  /\ act[w] = {}
  /\ activatePromise' = [activatePromise EXCEPT ![w] =
                            IF @ = "pending" THEN "fulfilled" ELSE @]
  /\ state' = [state EXCEPT ![w] = "activated"]
  /\ UNCHANGED <<buildVars, PRECACHE_ASSETS, clientMessages, message, previous,
                 cacheKeys, store, skipWaitingFlag, inst, act,
                 claim, controller, fh, faults>>

\* self.clients.claim() (index.ts:170) takes effect: the active worker
\* controls the open page.
ClientsClaim(w) ==
  /\ Quiet
  /\ claim[w]
  /\ state[w] \in {"activating", "activated"}
  /\ claim' = [claim EXCEPT ![w] = FALSE]
  /\ controller' = w
  /\ UNCHANGED <<buildVars, PRECACHE_ASSETS, clientMessages, message, previous, activatePromise,
                 cacheKeys, store, state, skipWaitingFlag,
                 inst, act, fh, faults>>

(* ------------------------------- fetch -------------------------------- *)

\* A filter that lets every method through.
InterceptsAnyMethod(request) ==
  startsWith(request.protocol, <<"h", "t", "t", "p">>)

\* index.ts:179: the listener handles GET requests of http(s) URLs and
\* returns at once for every other request.
Intercepts(request) ==
  ~(request.method # "GET" \/ ~startsWith(request.protocol, <<"h", "t", "t", "p">>))

\* A guard that stores a response of any status.
ShouldCacheAnyStatus(networkResponse) == networkResponse.type # "opaque"

\* index.ts:188-195: a response is stored when its status is 200 and it is
\* not opaque.
ShouldCache(networkResponse) ==
  /\ ~(networkResponse = NoResp \/ networkResponse.status # 200)
  /\ ~(networkResponse.type = "opaque")

\* A cache-first answer: the stored entry when there is one.
thenResponseCacheFirst(request, networkResponse) ==
  IF cachesMatch(request.url) # NoResp THEN cachesMatch(request.url)
  ELSE networkResponse

\* index.ts:186-204: what the listener answers when the network fetch
\* fulfils.
thenResponse(request, networkResponse) == networkResponse

\* A catch callback that does not return the entry it found.
catchResponseNoCache(request, cachedResponse) ==
  IF request.mode = "navigate" THEN NoResp ELSE OfflineResponse

\* A catch callback that rethrows when nothing is stored for the request.
catchResponseRethrow(request, cachedResponse) ==
  IF cachedResponse # NoResp THEN cachedResponse
  ELSE IF request.mode = "navigate" THEN NoResp
  ELSE Rejected

\* A catch callback that looks up the root document for every request.
catchResponseAnyMode(request, cachedResponse) ==
  IF cachedResponse # NoResp THEN cachedResponse ELSE NoResp

\* index.ts:207-225, up to the second await: the answer of the catch
\* callback given the result of caches.match(request); NoResp when it goes
\* on to look up the root document.
catchResponse(request, cachedResponse) ==
  IF cachedResponse # NoResp THEN cachedResponse
  ELSE IF request.mode = "navigate" THEN NoResp
  ELSE OfflineResponse

\* A fallback that never serves the root document.
fallbackResponseOffline(indexCache) == OfflineResponse

\* index.ts:215-225: the answer given the result of
\* caches.match('/index.html').
fallbackResponse(indexCache) ==
  IF indexCache # NoResp THEN indexCache ELSE OfflineResponse

\* The page, or the browser for it, sends a request while worker a is
\* activated: a fetch event is dispatched to it (index.ts:174-181).  For a
\* request the listener does not handle it returns without respondWith and
\* the browser performs the request as if there were no worker.
FetchEvent(i, request) ==
  LET a == ActiveWorker IN
  /\ Quiet
  /\ a # 0
  /\ state[a] = "activated"
  /\ fh[i].pc = "free"
  /\ \A j \in Slots : j < i => fh[j].pc # "free"
  /\ fh' = [fh EXCEPT ![i] =
              [FreeSlot EXCEPT !.pc = IF Intercepts(request) THEN "fetching"
                                      ELSE "passthrough",
                               !.w = a, !.req = request]]
  /\ UNCHANGED <<buildVars, PRECACHE_ASSETS, clientMessages, message, previous, activatePromise,
                 cacheKeys, store, state, skipWaitingFlag,
                 inst, act, claim, controller, faults>>

\* A then-callback that returns the chain of the cache write, so that the
\* catch callback runs when caches.open fails: the page gets the 503.
NetworkSuccessWriteCaught(i, networkResponse) ==
  /\ Quiet
  /\ fh[i].pc = "fetching"
  /\ networkResponse \in NetResponses(fh[i].req)
  /\ \E ok \in BOOLEAN :
       /\ ~ok => MayFail /\ ShouldCache(networkResponse)
       /\ faults' = IF ok THEN faults ELSE faults + 1
       /\ cacheKeys' = IF ok /\ ShouldCache(networkResponse)
                       THEN cachesOpen(cacheKeys, CACHE_NAME(fh[i].w))
                       ELSE cacheKeys
       /\ fh' = [fh EXCEPT ![i] =
                   [@ EXCEPT !.pc = "done",
                             !.net = networkResponse,
                             !.out = IF ok THEN thenResponse(fh[i].req, networkResponse)
                                     ELSE OfflineResponse,
                             !.write = IF ~ShouldCache(networkResponse) THEN "none"
                                       ELSE IF ok THEN "opened" ELSE "failed"]]
  /\ UNCHANGED <<buildVars, PRECACHE_ASSETS, clientMessages, message, previous, activatePromise,
                 store, state, skipWaitingFlag, inst, act,
                 claim, controller>>

\* A then-callback that returns the chain of the cache write: the page gets
\* the failure when caches.open fails.
NetworkSuccessAwaitsWrite(i, networkResponse) ==
  /\ Quiet
  /\ fh[i].pc = "fetching"
  /\ networkResponse \in NetResponses(fh[i].req)
  /\ \E ok \in BOOLEAN :
       /\ ~ok => MayFail /\ ShouldCache(networkResponse)
       /\ faults' = IF ok THEN faults ELSE faults + 1
       /\ cacheKeys' = IF ok /\ ShouldCache(networkResponse)
                       THEN cachesOpen(cacheKeys, CACHE_NAME(fh[i].w))
                       ELSE cacheKeys
       /\ fh' = [fh EXCEPT ![i] =
                   [@ EXCEPT !.pc = "done",
                             !.net = networkResponse,
                             !.out = IF ok THEN thenResponse(fh[i].req, networkResponse)
                                     ELSE Rejected,
                             !.write = IF ~ShouldCache(networkResponse) THEN "none"
                                       ELSE IF ok THEN "opened" ELSE "failed"]]
  /\ UNCHANGED <<buildVars, PRECACHE_ASSETS, clientMessages, message, previous, activatePromise,
                 store, state, skipWaitingFlag, inst, act,
                 claim, controller>>

\* fetch(request) fulfils with networkResponse (index.ts:186-204).  The
\* response is given to the page.  When it is to be stored the callback
\* calls caches.open(CACHE_NAME), which creates the cache if there is none or
\* fails, and does not wait for it.
NetworkSuccess(i, networkResponse) ==
  /\ Quiet
  /\ fh[i].pc = "fetching"
  /\ networkResponse \in NetResponses(fh[i].req)
  /\ \E ok \in BOOLEAN :
       /\ ~ok => MayFail /\ ShouldCache(networkResponse)
       /\ faults' = IF ok THEN faults ELSE faults + 1
       /\ cacheKeys' = IF ok /\ ShouldCache(networkResponse)
                       THEN cachesOpen(cacheKeys, CACHE_NAME(fh[i].w))
                       ELSE cacheKeys
       /\ fh' = [fh EXCEPT ![i] =
                   [@ EXCEPT !.pc = "done",
                             !.net = networkResponse,
                             !.out = thenResponse(fh[i].req, networkResponse),
                             !.write = IF ~ShouldCache(networkResponse) THEN "none"
                                       ELSE IF ok THEN "opened" ELSE "failed"]]
  /\ UNCHANGED <<buildVars, PRECACHE_ASSETS, clientMessages, message, previous, activatePromise,
                 store, state, skipWaitingFlag, inst, act,
                 claim, controller>>

\* A put that stores every response as the root document.
cachePutRootKey(cache, request, response) ==
  [u \in DOMAIN cache \cup {RootDocument} |->
     IF u = RootDocument THEN response ELSE cache[u]]

\* A put that keeps the entry a URL already has.
cachePutIfAbsent(cache, request, response) ==
  [u \in DOMAIN cache \cup {request.url} |->
     IF u \in DOMAIN cache THEN cache[u] ELSE response]

\* cache.put(request, response): the entry of the request's URL is set.
cachePut(cache, request, response) ==
  [u \in DOMAIN cache \cup {request.url} |->
     IF u = request.url THEN response ELSE cache[u]]

\* A cache write that puts the copy into the oldest cache of the origin.
CachePutOldestCache(i) ==
  /\ Quiet
  /\ fh[i].write \in {"opened", "orphan"}
  /\ store' = [store EXCEPT ![cacheKeys[1]] = cachePut(@, fh[i].req, fh[i].net)]
  /\ fh' = [fh EXCEPT ![i].write = "done"]
  /\ UNCHANGED <<buildVars, PRECACHE_ASSETS, clientMessages, message, previous,
                 activatePromise, cacheKeys, state, skipWaitingFlag, inst, act,
                 claim, controller, faults>>

\* cache.put(request, responseClone) (index.ts:199-201) settles: the copy
\* of the response is stored under the request's URL in the cache the
\* callback holds, replacing the entry that was there, or the put fails.
CachePut(i) ==
  /\ Quiet
  /\ fh[i].write \in {"opened", "orphan"}
  /\ \E ok \in BOOLEAN :
       IF ok
       THEN /\ store' = IF fh[i].write = "opened"
                        THEN [store EXCEPT ![CACHE_NAME(fh[i].w)] =
                                               cachePut(@, fh[i].req, fh[i].net)]
                        ELSE store
            /\ fh' = [fh EXCEPT ![i].write = "done"]
            /\ faults' = faults
       ELSE /\ MayFail
            /\ faults' = faults + 1
            /\ fh' = [fh EXCEPT ![i].write = "failed"]
            /\ store' = store
  /\ UNCHANGED <<buildVars, PRECACHE_ASSETS, clientMessages, message, previous, activatePromise,
                 cacheKeys, state, skipWaitingFlag, inst, act,
                 claim, controller>>

\* A catch callback that also stores the answer it gives.
NetworkFailureStoresAnswer(i) ==
  /\ Quiet
  /\ fh[i].pc = "fetching"
  /\ \E ok \in BOOLEAN :
       /\ ~ok => MayFail
       /\ faults' = IF ok THEN faults ELSE faults + 1
       /\ LET r == IF ok THEN catchResponse(fh[i].req, cachesMatch(fh[i].req.url))
                   ELSE Rejected
          IN  /\ fh' = [fh EXCEPT ![i] =
                          [@ EXCEPT !.pc = IF r = NoResp THEN "lookupIndex" ELSE "done",
                                    !.net = NetworkError,
                                    !.out = r]]
              /\ store' = IF r \in {NoResp, Rejected}
                              \/ CACHE_NAME(fh[i].w) \notin Range(cacheKeys)
                           THEN store
                           ELSE [store EXCEPT ![CACHE_NAME(fh[i].w)] =
                                                  cachePut(@, fh[i].req, r)]
  /\ UNCHANGED <<buildVars, PRECACHE_ASSETS, clientMessages, message, previous, activatePromise,
                 cacheKeys, state, skipWaitingFlag,
                 inst, act, claim, controller>>

\* fetch(request) rejects (index.ts:205-226): the catch callback awaits
\* caches.match(request).  When that rejects, the callback's promise, which
\* is the one given to respondWith, rejects.
NetworkFailure(i) ==
  /\ Quiet
  /\ fh[i].pc = "fetching"
  /\ \E ok \in BOOLEAN :
       /\ ~ok => MayFail
       /\ faults' = IF ok THEN faults ELSE faults + 1
       /\ LET r == IF ok THEN catchResponse(fh[i].req, cachesMatch(fh[i].req.url))
                   ELSE Rejected
          IN  fh' = [fh EXCEPT ![i] =
                       [@ EXCEPT !.pc = IF r = NoResp THEN "lookupIndex" ELSE "done",
                                 !.net = NetworkError,
                                 !.out = r]]
  /\ UNCHANGED <<buildVars, PRECACHE_ASSETS, clientMessages, message, previous, activatePromise,
                 cacheKeys, store, state, skipWaitingFlag,
                 inst, act, claim, controller>>

\* The callback awaits caches.match('/index.html') (index.ts:214-225).
IndexFallback(i) ==
  /\ Quiet
  /\ fh[i].pc = "lookupIndex"
  /\ \E ok \in BOOLEAN :
       /\ ~ok => MayFail
       /\ faults' = IF ok THEN faults ELSE faults + 1
       /\ fh' = [fh EXCEPT ![i] =
                   [@ EXCEPT !.pc = "done",
                             !.out = IF ok THEN fallbackResponse(cachesMatch(RootDocument))
                                     ELSE Rejected]]
  /\ UNCHANGED <<buildVars, PRECACHE_ASSETS, clientMessages, message, previous, activatePromise,
                 cacheKeys, store, state, skipWaitingFlag,
                 inst, act, claim, controller>>

\* An event that is over leaves its slot, before anything else happens.
EventDone(i) ==
  /\ Over(i)
  /\ fh' = [fh EXCEPT ![i] = FreeSlot]
  /\ UNCHANGED <<buildVars, PRECACHE_ASSETS, clientMessages, message, previous, activatePromise,
                 cacheKeys, store, state, skipWaitingFlag,
                 inst, act, claim, controller, faults>>

\* The browser stops an idle worker: no respondWith or waitUntil promise of
\* it is pending.  The cache writes it had not finished are dropped.
Terminate(w) ==
  /\ Quiet
  /\ state[w] = "activated"
  /\ ~HasPendingEvents(w)
  /\ \E i \in Slots : fh[i].w = w /\ fh[i].write \in {"opened", "orphan"}
  /\ fh' = [i \in Slots |-> IF fh[i].w = w THEN FreeSlot ELSE fh[i]]
  /\ UNCHANGED <<buildVars, PRECACHE_ASSETS, clientMessages, message, previous, activatePromise,
                 cacheKeys, store, state, skipWaitingFlag,
                 inst, act, claim, controller, faults>>

(* ------------------------------ messages ------------------------------ *)

\* The constant UPDATE_EVENT of the generated worker (index.ts:130).
UPDATE_EVENT == updateEventName

\* The data of the messages sent to a worker: none (null), the tag of
\* index.ts:232, and the tag the update checker sends (index.ts:250-252).  A
\* message's data is the sequence of its type, empty when it has no data.
MessageData == { <<>>, <<"SKIP_WAITING">>, <<"CACHE_UPDATED">> }

\* A listener that takes every message that has data as the order to skip
\* waiting.
callsSkipWaitingAnyType(data) == data # <<>>

\* index.ts:232: event.data && event.data.type === 'SKIP_WAITING'
callsSkipWaiting(data) == data # <<>> /\ data[1] = "SKIP_WAITING"

\* index.ts:133-135: clients.matchAll({ type: 'window' }), the open pages
\* that worker w controls.
getAllClients(w) == IF controller = w THEN {"page"} ELSE {}

\* index.ts:138-141: the message is posted to each of these pages.  No
\* listener of the worker calls this function.
notifyClients(w, msg) ==
  IF getAllClients(w) = {} THEN clientMessages ELSE Append(clientMessages, msg)

\* A page posts a message to the waiting worker; the update checker posts
\* its message to the worker that controls its page (index.ts:243-252).  The
\* message listener (index.ts:231-235) calls self.skipWaiting() for the tag
\* it knows and does nothing else.
MessageEvent(w, data) ==
  /\ Quiet
  /\ IF data = <<"CACHE_UPDATED">>
     THEN state[w] = "activated" /\ controller = w
     ELSE state[w] = "installed"
  /\ message' = [w |-> w, data |-> data, skipWaiting |-> callsSkipWaiting(data)]
  /\ skipWaitingFlag' = IF callsSkipWaiting(data)
                        THEN [skipWaitingFlag EXCEPT ![w] = TRUE]
                        ELSE skipWaitingFlag
  /\ UNCHANGED <<buildVars, PRECACHE_ASSETS, clientMessages, previous, activatePromise,
                 cacheKeys, store, state, inst, act, claim, controller, fh,
                 faults>>

\* The message event is over, before anything else happens.
MessageDone ==
  /\ message # NoMessage
  /\ message' = NoMessage
  /\ UNCHANGED <<buildVars, PRECACHE_ASSETS, clientMessages, previous, activatePromise,
                 cacheKeys, store, state, skipWaitingFlag, inst, act, claim,
                 controller, fh, faults>>

(* --------------------------- specification ---------------------------- *)

Next ==
  \/ \E w \in Workers : InstallEvent(w)
  \/ \E w \in Workers : InstallDone(w)
  \/ \E w \in Workers : InstallFailed(w)
  \/ \E w \in Workers : ActivateEvent(w)
  \/ \E w \in Workers : \E n \in Names : DeleteStale(w, n)
  \/ \E w \in Workers : ActivateDone(w)
  \/ \E w \in Workers : ClientsClaim(w)
  \/ \E i \in Slots : \E request \in Requests : FetchEvent(i, request)
  \/ \E i \in Slots : \E r \in UNION {NetResponses(q) : q \in Requests} :
       NetworkSuccess(i, r)
  \/ \E i \in Slots : CachePut(i)
  \/ \E i \in Slots : NetworkFailure(i)
  \/ \E i \in Slots : IndexFallback(i)
  \/ \E i \in Slots : EventDone(i)
  \/ \E w \in Workers : Terminate(w)
  \/ \E w \in Workers : \E data \in MessageData : MessageEvent(w, data)
  \/ MessageDone

Spec == Init /\ [][Next]_vars

(* ----------------------- activation, run again ----------------------- *)

\* The activate listener of one worker (index.ts:156-171) over the caches it
\* may meet, run a second time after its first run: when that run is over, or
\* in the middle of it.

\* The lists of the names in s, in every order.
Orders(s) ==
  {q \in UNION {[1 .. k -> s] : k \in {Cardinality(s)}} :
     \A a, b \in 1 .. Cardinality(s) : a # b => q[a] # q[b]}

\* Worker w is installed: its cache exists and holds the precache.  The
\* origin holds any of the other caches besides, in any order of creation:
\* the caches of older builds with their precache, the cache of the page.
InitActivate ==
  /\ PRECACHE_ASSETS \in PrecacheLists
  /\ \E w \in Workers :
     \E others \in SUBSET ({CACHE_NAME(v) : v \in 1 .. w - 1} \cup {AppCache}) :
       /\ cacheKeys \in Orders(others \cup {CACHE_NAME(w)})
       /\ store = [n \in Names |->
                     IF n \notin others \cup {CACHE_NAME(w)} THEN EmptyCache
                     ELSE IF n = AppCache
                     THEN [u \in {"/data.json"} |-> Resp(200, "basic", "app")]
                     ELSE addAll(EmptyCache, Deployed(n[2]))]
       /\ state = [x \in Workers |->
                     IF x = w THEN "installed"
                     ELSE IF x < w THEN "redundant" ELSE "parsed"]
       /\ skipWaitingFlag = [x \in Workers |-> x <= w]
  /\ inst = [w \in Workers |-> "idle"]
  /\ act = [w \in Workers |-> {}]
  /\ claim = [w \in Workers |-> FALSE]
  /\ controller = 0
  /\ fh = [i \in Slots |-> FreeSlot]
  /\ faults = 0
  /\ previous = [w \in Workers |-> 0]
  /\ activatePromise = [w \in Workers |-> "none"]
  /\ message = NoMessage
  /\ clientMessages = <<>>
  /\ NoBuild

\* The activate event is dispatched to worker w once more, while its first
\* run is going on (that run is interrupted) or when it is over: the listener
\* calls caches.keys() and self.clients.claim() again.  The active worker at
\* that time is w itself.
ActivateAgain(w) ==
  /\ Quiet
  /\ state[w] \in {"activating", "activated"}
  /\ previous[w] # w
  /\ state' = [state EXCEPT ![w] = "activating"]
  /\ act' = [act EXCEPT ![w] = StaleNames(cacheKeys, CACHE_NAME(w))]
  /\ activatePromise' = [activatePromise EXCEPT ![w] = "pending"]
  /\ previous' = [previous EXCEPT ![w] = w]
  /\ claim' = [x \in Workers |-> x = w]
  /\ UNCHANGED <<buildVars, PRECACHE_ASSETS, clientMessages, message, cacheKeys, store,
                 skipWaitingFlag, inst, controller, fh, faults>>

\* A cache the listener is about to delete is deleted before that, by a
\* delete of the interrupted run that was still on its way, or by the page.
OtherDelete(n) ==
  /\ Quiet
  /\ n \in Range(cacheKeys)
  /\ \E w \in Workers : n \in act[w]
  /\ cacheKeys' = cachesDelete(cacheKeys, n)
  /\ store' = [store EXCEPT ![n] = EmptyCache]
  /\ UNCHANGED <<buildVars, PRECACHE_ASSETS, clientMessages, message, previous,
                 activatePromise, state, skipWaitingFlag, inst, act, claim,
                 controller, fh, faults>>

NextActivate ==
  \/ \E w \in Workers : ActivateEvent(w)
  \/ \E w \in Workers : \E n \in Names : DeleteStale(w, n)
  \/ \E w \in Workers : ActivateDone(w)
  \/ \E w \in Workers : ClientsClaim(w)
  \/ \E w \in Workers : ActivateAgain(w)
  \/ \E n \in Names : OtherDelete(n)

SpecActivate == InitActivate /\ [][NextActivate]_vars

(* --------------------------- the plugin's hooks ----------------------- *)

\* The plugin is called with any of the options; none of its hooks has run
\* and no worker is registered.
InitBuild ==
  /\ options \in OptionValues
  /\ buildHash = NoHash
  /\ bundles = <<>>
  /\ devServer = NoSource
  /\ devReply = NoReply
  /\ html = <<>>
  /\ pageEvent = NoPageEvent
  /\ PRECACHE_ASSETS = <<RootDocument>>
  /\ cacheKeys = <<>>
  /\ store = [n \in Names |-> EmptyCache]
  /\ state = [w \in Workers |-> "parsed"]
  /\ skipWaitingFlag = [w \in Workers |-> FALSE]
  /\ inst = [w \in Workers |-> "idle"]
  /\ act = [w \in Workers |-> {}]
  /\ claim = [w \in Workers |-> FALSE]
  /\ controller = 0
  /\ fh = [i \in Slots |-> FreeSlot]
  /\ faults = 0
  /\ previous = [w \in Workers |-> 0]
  /\ activatePromise = [w \in Workers |-> "none"]
  /\ message = NoMessage
  /\ clientMessages = <<>>

\* configureServer: the dev server starts.  The hook draws a hash and sets
\* up the middleware with the worker source generated from it.
configureServer ==
  /\ \E hash \in Hashes :
       /\ buildHash' = hash
       /\ devServer' = swContent(options, hash)
  /\ UNCHANGED <<workerVars, options, bundles, devReply, html, pageEvent>>

\* The middleware of the dev server gets a request: it answers the worker
\* source for '/sw.js' and hands every other request on.
middleware(url) ==
  /\ devServer # NoSource
  /\ devReply' = IF url = "/sw.js"
                 THEN [url |-> url, contentType |-> "application/javascript",
                       body |-> devServer]
                 ELSE [url |-> url, contentType |-> "", body |-> NoSource]
  /\ UNCHANGED <<workerVars, options, buildHash, bundles, devServer, html, pageEvent>>

\* this.emitFile({type: 'asset', fileName, source})
emitFile(bundle, fileName, source) == (fileName :> source) @@ bundle

\* generateBundle: a build.  The hook draws a hash, and emits the worker and
\* the update checker.
generateBundle ==
  /\ Len(bundles) < MaxBuilds
  /\ \E hash \in Hashes :
       /\ buildHash' = hash
       /\ bundles' =
            Append(bundles,
                   emitFile(emitFile(<<>>, "sw.js", swContent(options, hash)),
                            "sw-update-check.js",
                            generateUpdateChecker(defaults(options).updateEventName)))
  /\ UNCHANGED <<workerVars, options, devServer, devReply, html, pageEvent>>

\* transformIndexHtml: the registration script is put before '</head>'.
transformIndexHtml(page) ==
  /\ html' = replace(page, "</head>",
                     <<swRegistrationScript(options), Tag("</head>")>>)
  /\ UNCHANGED <<workerVars, options, buildHash, bundles, devServer, devReply, pageEvent>>

\* The page that was transformed is open and gets a message: the listener
\* of each script in it runs.
onMessage(data) ==
  /\ \E k \in 1 .. Len(html) : html[k].tag = "script"
  /\ pageEvent' =
       [data |-> data, handled |-> TRUE,
        reloaded |-> \E k \in 1 .. Len(html) :
                       html[k].tag = "script" /\ reloads(html[k], data)]
  /\ UNCHANGED <<workerVars, options, buildHash, bundles, devServer, devReply, html>>

NextBuild ==
  \/ configureServer
  \/ \E url \in DevUrls : middleware(url)
  \/ generateBundle
  \/ \E page \in Pages : transformIndexHtml(page)
  \/ \E data \in PageMessages : onMessage(data)

SpecBuild == InitBuild /\ [][NextBuild]_vars

(* ------------------------------ properties ---------------------------- *)

\* The entries the origin's caches hold for a URL.
Entries(url) == {cacheMatch(store[n], url) : n \in Range(cacheKeys)} \ {NoResp}

\* The entry the cache of worker w holds for a URL.
Own(w, url) == cacheMatch(store[CACHE_NAME(w)], url)

\* Slot i takes the step in which its network fetch fulfils.
Fulfils(i) == fh[i].pc = "fetching" /\ fh'[i].net \notin {NoResp, NetworkError}

\* Slot i takes the step in which its network fetch rejects and the storage
\* serves caches.match(request).
LooksUp(i) ==
  fh[i].pc = "fetching" /\ fh'[i].net = NetworkError /\ faults' = faults

\* Slot i takes the step in which the storage serves
\* caches.match('/index.html').
LooksUpRoot(i) == fh[i].pc = "lookupIndex" /\ fh'[i].pc = "done" /\ faults' = faults

C2_CachedEntryServed ==
  [][\A i \in Slots :
       (LooksUp(i) /\ Entries(fh[i].req.url) # {})
       => /\ fh'[i].pc = "done"
          /\ fh'[i].out \in Entries(fh[i].req.url)]_vars

\* C2 witness: a request that failed on the network was answered with the
\* entry the worker's cache holds for it.
C2_Witness ==
  \E i \in Slots :
    /\ fh[i].pc = "done" /\ fh[i].net = NetworkError
    /\ fh[i].req.url = "/data.json"
    /\ fh[i].out.status = 200
    /\ fh[i].out = Own(fh[i].w, "/data.json")

\* C3: whenever the network fetch of an intercepted request fulfilled, the
\* answer is the network's response, whatever the caches hold.
C3_NetworkFirst ==
  \A i \in Slots :
    fh[i].net \notin {NoResp, NetworkError} => fh[i].out = fh[i].net

\* C3 witness: the network's response was served although the worker's cache
\* holds a different entry for the request.
C3_Witness ==
  \E i \in Slots :
    /\ fh[i].pc = "done" /\ fh[i].net.status = 200
    /\ fh[i].out = fh[i].net
    /\ Own(fh[i].w, fh[i].req.url) \notin {NoResp, fh[i].net}

\* C4: when the network fetch rejects and the lookups find nothing (no entry
\* for the request, and either the request is no navigation or there is no
\* entry for the root document), the listener answers 503 with a body.
C4_OfflineResponse ==
  [][\A i \in Slots :
       /\ (LooksUp(i) /\ Entries(fh[i].req.url) = {} /\ fh[i].req.mode # "navigate")
          => /\ fh'[i].pc = "done"
             /\ fh'[i].out.status = 503 /\ fh'[i].out.body # ""
       /\ (LooksUpRoot(i) /\ Entries(RootDocument) = {})
          => /\ fh'[i].out.status = 503 /\ fh'[i].out.body # ""]_vars

\* C4 witness: a request that is no navigation failed on the network with
\* nothing stored for it and got the 503.
C4_Witness ==
  \E i \in Slots :
    /\ fh[i].pc = "done" /\ fh[i].net = NetworkError
    /\ fh[i].req.mode # "navigate"
    /\ Entries(fh[i].req.url) = {}
    /\ fh[i].out = Resp(503, "default", "Offline - Resource not found")

C6_NeverRejects == \A i \in Slots : fh[i].out # Rejected

\* C7: when the network answers with a status other than 200, or with an
\* opaque response, the listener gives that response to the page, schedules
\* no cache write, and the step changes no cache: the entry of the request
\* is neither added nor replaced.
C7_UncacheableLeftAlone ==
  [][\A i \in Slots :
       (Fulfils(i) /\ (fh'[i].net.status # 200 \/ fh'[i].net.type = "opaque"))
       => /\ fh'[i].pc = "done"
          /\ fh'[i].out = fh'[i].net
          /\ fh'[i].write = "none"
          /\ cacheKeys' = cacheKeys
          /\ store' = store]_vars

\* C7 witness: a 404 was given to the page while the worker's cache keeps
\* the entry it had for the request.
C7_Witness ==
  \E i \in Slots :
    /\ fh[i].pc = "done" /\ fh[i].net.status = 404
    /\ fh[i].out = fh[i].net /\ fh[i].write = "none"
    /\ Own(fh[i].w, fh[i].req.url) # NoResp

\* C8: for a request whose method is not GET or whose scheme is neither
\* http nor https, the listener returns without respondWith: the dispatch
\* changes no cache, and the event has no network fetch, no answer and no
\* cache write of the worker until it is over.
C8_PassThrough ==
  [][\A i \in Slots :
       /\ (fh[i].pc = "free" /\ fh'[i].pc # "free"
             /\ (fh'[i].req.method # "GET"
                   \/ fh'[i].req.protocol \notin {HttpProtocol, HttpsProtocol}))
          => /\ fh'[i].pc = "passthrough"
             /\ fh'[i].net = NoResp /\ fh'[i].out = NoResp /\ fh'[i].write = "none"
             /\ cacheKeys' = cacheKeys /\ store' = store
       /\ fh[i].pc = "passthrough" => fh'[i] \in {fh[i], FreeSlot}]_vars

\* C8 witness: a POST was dispatched to the worker and passed through.
C8_Witness ==
  \E i \in Slots :
    /\ fh[i].pc = "passthrough" /\ fh[i].req.method = "POST"
    /\ fh[i].net = NoResp /\ fh[i].out = NoResp

\* The cache of worker w exists and holds an entry for every asset of the
\* precache list.
Precached(keys, st, w) ==
  /\ CACHE_NAME(w) \in Range(keys)
  /\ \A u \in Range(PRECACHE_ASSETS) : u \in DOMAIN st[CACHE_NAME(w)]

\* C9 as stated: whenever a worker becomes installed, activating or
\* activated, every asset of the precache list is stored in its cache.
C9_NeverInstalledIncomplete ==
  [][\A w \in Workers :
       (state'[w] # state[w] /\ state'[w] \in {"installed", "activating", "activated"})
       => Precached(cacheKeys', store', w)]_vars

\* C10 as stated, for the runs in which no storage request failed: when a
\* worker is activated and no other worker is being installed or activated,
\* the origin has exactly one cache, the one of the activated worker.
C10_ExactlyOneNamespace ==
  \A w \in Workers :
    (/\ faults = 0
     /\ state[w] = "activated"
     /\ \A v \in Workers : state[v] \in {"parsed", "activated", "redundant"})
    => Range(cacheKeys) = {CACHE_NAME(w)}

\* C11 as stated, for the runs in which no storage request failed: when the
\* worker of a newer build has activated over an older worker, then at the
\* end of the activation the older worker's cache is gone and the newer
\* worker's cache exists and holds an entry for every asset of its precache
\* list.
C11_OldGoneNewPrecached ==
  [][\A w \in Workers :
       (/\ state[w] = "activating" /\ state'[w] = "activated"
        /\ previous[w] # 0 /\ previous[w] < w
        /\ faults' = 0)
       => /\ CACHE_NAME(previous[w]) \notin Range(cacheKeys')
          /\ Precached(cacheKeys', store', w)]_vars

\* C12 as stated: the response the offline fallback serves from the caches,
\* by the lookup of the request or by the lookup of the root document, is the
\* entry of the worker's own cache, never an entry of another cache of the
\* origin.
C12_ReadsOwnNamespaceOnly ==
  [][\A i \in Slots :
       /\ (LooksUp(i) /\ fh'[i].pc = "done" /\ fh'[i].out # OfflineResponse)
          => fh'[i].out = Own(fh[i].w, fh[i].req.url)
       /\ (LooksUpRoot(i) /\ fh'[i].out # OfflineResponse)
          => fh'[i].out = Own(fh[i].w, RootDocument)]_vars

\* The entries of the cache named n that the step adds or replaces.
Written(n) ==
  {u \in DOMAIN store'[n] : u \notin DOMAIN store[n] \/ store'[n][u] # store[n][u]}

\* C13: a step that adds or replaces an entry of a cache is the end of the
\* install of a worker, or the end of a cache write of a fetch event of a
\* worker, and the cache is that worker's own (CACHE_NAME): no entry of
\* another cache is added or replaced.
C13_WritesOwnNamespaceOnly ==
  [][\A n \in Names :
       Written(n) # {}
       => \/ \E w \in Workers :
               /\ state[w] = "installing" /\ state'[w] = "installed"
               /\ n = CACHE_NAME(w)
               /\ \A m \in Names \ {n} : Written(m) = {}
          \/ \E i \in Slots :
               /\ fh[i].write = "opened" /\ fh'[i].write = "done"
               /\ n = CACHE_NAME(fh[i].w)
               /\ \A m \in Names \ {n} : Written(m) = {}]_vars

\* C13 witness: the second worker has written, by precaching and by the
\* cache write of a fetch event, and the cache of the page, which still
\* exists, has the one entry it started with.
C13_Witness ==
  /\ AppCache \in Range(cacheKeys)
  /\ store[AppCache] = [u \in {"/data.json"} |-> Resp(200, "basic", "app")]
  /\ \E i \in Slots :
       /\ fh[i].write = "done" /\ fh[i].w = 2
       /\ Own(2, fh[i].req.url) = fh[i].net
  /\ \A u \in Range(PRECACHE_ASSETS) : Own(2, u) # NoResp

\* The names this system owns: `${cacheName}-${buildHash}`.
OwnedNames == {n \in Names : n[1] = cacheName}

\* C14 as stated: a step of an activation removes only caches this system
\* owns, and never the worker's own; a cache of the origin that is not this
\* system's stays, with its entries.
C14_ForeignCacheLeftAlone ==
  [][\A w \in Workers : \A n \in Range(cacheKeys) :
       (act'[w] # act[w] /\ n \notin Range(cacheKeys'))
       => /\ n \in OwnedNames \ {CACHE_NAME(w)}
          /\ AppCache \in Range(cacheKeys) =>
               /\ AppCache \in Range(cacheKeys')
               /\ store'[AppCache] = store[AppCache]]_vars

\* C15 as stated: the activating worker controls the open page only when the
\* deletes of its activation are over: in no state does it control the page
\* while a cache it is due to delete still exists.
C15_ClaimAfterCleanup ==
  \A w \in Workers :
    (controller = w /\ state[w] = "activating")
    => act[w] \cap Range(cacheKeys) = {}

\* C16 as stated: a delete that fails during activation is swallowed: the
\* promise the activate listener gave to waitUntil is fulfilled all the same
\* when the worker is activated, whatever the deletes did.
C16_DeleteFailureSwallowed ==
  \A w \in Workers :
    state[w] = "activated" => activatePromise[w] = "fulfilled"

\* The activate listener of worker w is run again in this step.
Reruns(w) == previous[w] # w /\ previous'[w] = w

\* A delete of the second run of w's listener is served in this step.
RerunDeletes(w, n) ==
  /\ previous[w] = w
  /\ n \in act[w] /\ n \notin act'[w]
  /\ faults' = faults

\* C17 as stated: when the activate listener of a worker is run again, after
\* its first run is over or after that run was interrupted with some stale
\* caches gone, no delete of the second run raises an error and none changes
\* the caches of the origin or their entries.
C17_RerunChangesNothing ==
  [][\A w \in Workers : \A n \in Names :
       RerunDeletes(w, n)
       => /\ activatePromise'[w] = activatePromise[w]
          /\ cacheKeys' = cacheKeys
          /\ store' = store]_vars

\* C17 amended: when the listener is run again after a run that is over, so
\* that only the worker's own cache is there, it has nothing to delete.  Run
\* again after an interrupted run, each delete the storage serves raises no
\* error, removes a stale cache that was still there and nothing else, and
\* changes nothing when that cache is gone already; the worker's own cache
\* and its entries stay.  The second run ends fulfilled with only the worker's
\* own cache left, as a run that was not interrupted does.
C17_RerunIdempotent ==
  [][\A w \in Workers :
       /\ (Reruns(w) /\ Range(cacheKeys) = {CACHE_NAME(w)})
          => /\ act'[w] = {}
             /\ cacheKeys' = cacheKeys /\ store' = store
       /\ \A n \in Names :
            RerunDeletes(w, n)
            => /\ activatePromise'[w] = activatePromise[w]
               /\ n # CACHE_NAME(w)
               /\ Range(cacheKeys') = Range(cacheKeys) \ {n}
               /\ \A m \in Range(cacheKeys') : store'[m] = store[m]
               /\ n \notin Range(cacheKeys)
                    => cacheKeys' = cacheKeys /\ store' = store
       /\ (/\ previous[w] = w
           /\ state[w] = "activating" /\ state'[w] = "activated"
           /\ activatePromise'[w] = "fulfilled")
          => /\ Range(cacheKeys') = {CACHE_NAME(w)}
             /\ Precached(cacheKeys', store', w)]_vars

\* C17 witness: the second run of the listener of worker 2, begun while the
\* first was going on, is over and fulfilled; only the worker's own cache is
\* left, with its precache.
C17_Witness ==
  /\ previous[2] = 2
  /\ state[2] = "activated" /\ activatePromise[2] = "fulfilled"
  /\ cacheKeys = <<CACHE_NAME(2)>>
  /\ Precached(cacheKeys, store, 2)

\* C18 as stated: in the step in which a worker calls self.skipWaiting(),
\* every asset of the precache list is stored in its cache: a worker whose
\* precache is not complete, or has failed, does not call it.
C18_SkipWaitingAfterPrecache ==
  [][\A w \in Workers :
       (~skipWaitingFlag[w] /\ skipWaitingFlag'[w])
       => Precached(cacheKeys', store', w)]_vars

\* C19: in the step in which a worker gets a message, a message whose data
\* has the type 'SKIP_WAITING' makes the worker call self.skipWaiting(), so
\* that its skip waiting flag is set and the browser promotes it without
\* waiting for the pages to close; for a message of any other type, or without
\* data, the worker does not call it, and the step changes no worker's
\* lifecycle state or flag and no cache.
C19_MessageListener ==
  [][(message = NoMessage /\ message' # NoMessage)
     => IF message'.data = <<"SKIP_WAITING">>
        THEN /\ message'.skipWaiting
             /\ skipWaitingFlag'[message'.w]
             /\ state' = state /\ cacheKeys' = cacheKeys /\ store' = store
        ELSE /\ ~message'.skipWaiting
             /\ skipWaitingFlag' = skipWaitingFlag
             /\ state' = state /\ act' = act /\ claim' = claim
             /\ controller' = controller
             /\ cacheKeys' = cacheKeys /\ store' = store]_vars

\* C19 witness: a worker that waits behind an active worker got the message
\* 'SKIP_WAITING' and called self.skipWaiting().
C19_Witness ==
  /\ message.data = <<"SKIP_WAITING">>
  /\ message.skipWaiting
  /\ message.w # 0 /\ state[message.w] = "installed"
  /\ skipWaitingFlag[message.w]
  /\ \E a \in Workers : state[a] = "activated"

\* C20 as stated: when the update checker has reported to the worker that
\* controls its page (the message 'CACHE_UPDATED'), the worker has posted a
\* message of the type UPDATE_EVENT to the page by the time that message
\* event is over.
C20_UpdateBroadcast ==
  [][(message.data = <<"CACHE_UPDATED">> /\ message' = NoMessage)
     => /\ Len(clientMessages') = Len(clientMessages) + 1
        /\ clientMessages'[Len(clientMessages')] = UPDATE_EVENT]_vars

\* The runs of generateBundle that emitted the file.
Emitted(fileName) == {k \in 1 .. Len(bundles) : fileName \in DOMAIN bundles[k]}

\* C21: with enableUpdateCheck set to false no update checker is generated:
\* no build emits the file sw-update-check.js.
C21_UpdateCheckGated ==
  options.enableUpdateCheck = {FALSE} => Emitted("sw-update-check.js") = {}

\* The namespaces generated so far: the one of each build and the one of the
\* dev server.
Generated ==
  {bundles[k]["sw.js"].CACHE_NAME : k \in 1 .. Len(bundles)}
    \cup (IF devServer = NoSource THEN {} ELSE {devServer.CACHE_NAME})

GenerationOf(literal) ==
  SubSeq(literal, Len(defaults(options).cacheName) + 3, Len(literal) - 1)

\* The namespace a step generates, when it generates one.
Generates(before, after) ==
  IF Len(after[1]) > Len(before[1])
  THEN {after[1][Len(after[1])]["sw.js"].CACHE_NAME}
  ELSE IF after[2] # before[2] THEN {after[2].CACHE_NAME} ELSE {}

C23_ExactlyThePrecache ==
  [][\A w \in Workers :
       (state[w] = "installing" /\ state'[w] = "installed")
       => /\ CACHE_NAME(w) \in Range(cacheKeys')
          /\ Cardinality({k \in 1 .. Len(cacheKeys') :
                            cacheKeys'[k] = CACHE_NAME(w)}) = 1
          /\ DOMAIN store'[CACHE_NAME(w)] = Range(PRECACHE_ASSETS)]_vars

\* C24: the network answered a GET of worker w with 200 and a response that
\* is not opaque, and the page has it (slot i); when the same worker then
\* handles the failure of the network for a request of the same URL (slot j),
\* its answer has the body the network returned to slot i.
C24_RoundTrip ==
  [][\A i, j \in Slots :
       (/\ i # j
        /\ fh[i].pc = "done"
        /\ fh[i].net.status = 200 /\ fh[i].net.type # "opaque"
        /\ fh[j].w = fh[i].w
        /\ fh[j].req.url = fh[i].req.url
        /\ LooksUp(j))
       => fh'[j].out.body = fh[i].net.body]_vars

\* C25: when the network answers 200 with a response that is not opaque, the
\* page has that response in the same step, before the cache write has done
\* anything (it is pending, or caches.open has failed already), and whatever
\* the cache write does afterwards (it fulfils, it fails, it never ends) the
\* answer the page has stays as it is.
C25_AnswerNotHeldBack ==
  [][\A i \in Slots :
       /\ (/\ Fulfils(i)
           /\ fh'[i].net.status = 200 /\ fh'[i].net.type # "opaque")
          => /\ fh'[i].pc = "done"
             /\ fh'[i].out = fh'[i].net
             /\ fh'[i].write \in {"opened", "failed"}
             /\ store' = store
       /\ (fh[i].pc = "done" /\ fh'[i].pc = "done")
          => fh'[i].out = fh[i].out]_vars

\* The page has the response of the network although the cache write failed.
C25_Witness ==
  \E i \in Slots :
    /\ fh[i].pc = "done"
    /\ fh[i].net.status = 200 /\ fh[i].net.type # "opaque"
    /\ fh[i].out = fh[i].net
    /\ fh[i].write = "failed"

\* Slots i and j hold two events of one worker for the same URL.
SameKey(i, j) ==
  /\ i # j
  /\ fh[i].w = fh[j].w
  /\ fh[i].req.url = fh[j].req.url

\* C26: two fetch events of a worker for the same URL have cacheable
\* responses and their cache writes are in flight together.  Whichever put
\* ends first and whichever ends last, a put that is fulfilled leaves, in the
\* worker's cache, one entry for the URL, the whole response of that put
\* (whatever entry was there, the one of the other put included), leaves the
\* other entries as they are and leaves the other write in flight; a put that
\* fails leaves the cache as it is.  So the entry is the response of the
\* write that completed last.
C26_LastWriteWins ==
  [][\A i \in Slots :
       /\ (fh[i].write = "opened" /\ fh'[i].write = "done")
          => LET n == CACHE_NAME(fh[i].w)
             IN  /\ n \in Range(cacheKeys')
                 /\ store'[n][fh[i].req.url] = fh[i].net
                 /\ \A u \in DOMAIN store[n] \ {fh[i].req.url} :
                      u \in DOMAIN store'[n] /\ store'[n][u] = store[n][u]
                 /\ DOMAIN store'[n] = DOMAIN store[n] \cup {fh[i].req.url}
                 /\ \A j \in Slots :
                      (SameKey(i, j) /\ fh[j].write = "opened") => fh'[j] = fh[j]
       /\ (fh[i].write = "opened" /\ fh'[i].write = "failed")
          => store' = store]_vars

\* The put of one of two concurrent events for a URL has been fulfilled, the
\* other one is still in flight with another response, and the cache holds
\* the response of the put that has been fulfilled.
C26_Witness ==
  \E i, j \in Slots :
    /\ SameKey(i, j)
    /\ fh[i].write = "done" /\ fh[j].write = "opened"
    /\ fh[i].net # fh[j].net
    /\ Own(fh[i].w, fh[i].req.url) = fh[i].net

\* C27: stopping the worker between two events loses no cache update of an
\* event it has handled: a cache write that is in flight when the page has
\* its answer stays in flight until the storage has served it.
C27_TerminationLosesNothing ==
  [][\A i \in Slots :
       (fh[i].pc = "done" /\ fh[i].write \in {"opened", "orphan"})
       => /\ fh'[i].pc = "done"
          /\ fh'[i].write \in {"opened", "orphan", "done", "failed"}]_vars

\* The scripts of the page the plugin has transformed.
Scripts == {k \in 1 .. Len(html) : html[k].tag = "script"}

\* C28: for every configuration the worker is at '/sw.js': each build emits
\* the worker source as the asset 'sw.js', the dev server answers the worker
\* source for the URL '/sw.js' and for no other URL, and the script put into
\* the page registers '/sw.js'.
C28_WorkerPath ==
  /\ \A k \in 1 .. Len(bundles) :
       /\ "sw.js" \in DOMAIN bundles[k]
       /\ \E hash \in Hashes : bundles[k]["sw.js"] = swContent(options, hash)
  /\ devReply # NoReply
       => /\ devReply.url = "/sw.js" <=> devReply.body # NoSource
          /\ devReply.url = "/sw.js"
               => /\ devReply.contentType = "application/javascript"
                  /\ \E hash \in Hashes : devReply.body = swContent(options, hash)
  /\ \A k \in Scripts : html[k].register = "/sw.js"

\* The plugin is called with options of its own; a build has emitted the
\* worker, the dev server has answered a request for it, and the page has
\* the script.
C28_Witness ==
  /\ options.cacheName # {} /\ options.updateEventName # {}
  /\ Len(bundles) > 0
  /\ devReply.url = "/sw.js" /\ devReply.body = devServer
  /\ Scripts # {}

\* The value of an option: the one supplied, the documented default when
\* none is.
Documented(option, default) ==
  IF option = {} THEN default ELSE CHOOSE v \in option : TRUE

\* The worker source a step generates, when it generates one.
NewSources ==
  IF Len(bundles') > Len(bundles) THEN {bundles'[Len(bundles')]["sw.js"]}
  ELSE IF devServer' # devServer THEN {devServer'} ELSE {}

\* C29: the constants of every worker the plugin generates are the options:
\* an option that is not supplied has its documented default (cacheName
\* 'offline-app-cache', precacheAssets ['/index.html'], enableUpdateCheck
\* true, updateEventName 'offline-first:update'), an option that is supplied
\* is there unchanged.
C29_OptionsInWorker ==
  [][\A source \in NewSources :
       LET worker == workerConstants(source)
       IN  /\ worker.CACHE_NAME =
                Documented(options.cacheName, <<"offline-app-cache">>)
                  \o <<"-">> \o buildHash'
           /\ worker.PRECACHE_ASSETS =
                Documented(options.precacheAssets, << <<"/index.html">> >>)
           /\ worker.ENABLE_UPDATE_CHECK =
                Documented(options.enableUpdateCheck, TRUE)
           /\ worker.UPDATE_EVENT =
                Documented(options.updateEventName, <<"offline-first:update">>)
    ]_vars

C31_NewerNamespaceSpared ==
  [][\A w, v \in Workers :
       /\ (/\ w < v
           /\ state[w] = "activating"
           /\ state[v] = "installed"
           /\ CACHE_NAME(v) \in Range(cacheKeys))
          => CACHE_NAME(v) \in Range(cacheKeys')
       /\ (state[v] = "installed" /\ state'[v] = "activating")
          => Precached(cacheKeys', store', v)]_vars

\* C32: when the install of a worker fails, cache storage is as it was
\* before the attempt: the worker's cache, which did not exist before, does
\* not exist, neither empty nor partly filled.
C32_FailedInstallLeavesNothing ==
  [][\A w \in Workers :
       (state[w] = "installing" /\ state'[w] = "redundant")
       => CACHE_NAME(w) \notin Range(cacheKeys')]_vars

\* C33: the lookups of the caches and the 503 come after a fetch that
\* rejected, and after no other: a step in which the fetch of an event
\* fulfils gives the page the network's response and consults no cache,
\* also when caches.open fails in that step; a step that looks up the root
\* document or answers the 503 belongs to an event whose fetch rejected; and
\* once the fetch has fulfilled no later step (the put that fulfils, the put
\* that fails) gives the event another answer.
C33_FallbackOnlyAfterRejection ==
  [][\A i \in Slots :
       /\ Fulfils(i)
          => /\ fh'[i].pc = "done"
             /\ fh'[i].out = fh'[i].net
       /\ (fh[i].pc # "lookupIndex" /\ fh'[i].pc = "lookupIndex")
          => fh'[i].net = NetworkError
       /\ (fh'[i].out # fh[i].out /\ fh'[i].out = OfflineResponse)
          => fh'[i].net = NetworkError
       /\ (fh[i].net \notin {NoResp, NetworkError} /\ fh'[i].pc # "free")
          => fh'[i].out = fh[i].out]_vars

\* The network answered, caches.open failed, and the page has the network's
\* response although the worker's cache holds another entry for the request.
C33_Witness ==
  \E i \in Slots :
    /\ fh[i].pc = "done" /\ fh[i].write = "failed"
    /\ fh[i].net \notin {NoResp, NetworkError}
    /\ fh[i].out = fh[i].net
    /\ Own(fh[i].w, fh[i].req.url) \notin {NoResp, fh[i].net}

\* C34: every entry of the cache of a worker is a response of status 200
\* that is not opaque: the precache entry of its URL, or a response the
\* network gives to a GET of its URL.  The 503 is in no cache, and a step of
\* the catch callback (the answer from the caches, from the root document,
\* the 503) changes no cache.
C34_EntriesFromPrecacheOrNetwork ==
  [][/\ \A w \in Workers : \A u \in DOMAIN store'[CACHE_NAME(w)] :
          LET entry == store'[CACHE_NAME(w)][u]
          IN  /\ entry.status = 200 /\ entry.type # "opaque"
              /\ entry # OfflineResponse
              /\ \/ u \in Range(PRECACHE_ASSETS)
                      /\ entry = Resp(200, "basic", Deployed(w))
                 \/ \E request \in Requests :
                      /\ request.url = u /\ Intercepts(request)
                      /\ entry \in NetResponses(request)
     /\ \A i \in Slots :
          (fh'[i].net = NetworkError /\ fh'[i] # fh[i]) => store' = store
    ]_vars

\* An event was answered from the cache, with an entry that was stored from
\* a response of the network, and the cache holds that entry as it was.
C34_Witness ==
  \E i \in Slots :
    /\ fh[i].pc = "done" /\ fh[i].net = NetworkError
    /\ fh[i].req.url \notin Range(PRECACHE_ASSETS)
    /\ fh[i].out = Own(fh[i].w, fh[i].req.url)
    /\ fh[i].out.status = 200

\* C35: only a navigation gets the root document in place of its own: an
\* intercepted request that is no navigation, whose fetch rejects and for
\* which the caches hold nothing, is answered 503 in that step, whether the
\* root document is stored or not, and only the event of a navigation goes
\* on to look up the root document.
C35_FallbackForNavigationsOnly ==
  [][\A i \in Slots :
       /\ (/\ LooksUp(i)
           /\ fh[i].req.mode # "navigate"
           /\ Entries(fh[i].req.url) = {})
          => /\ fh'[i].pc = "done"
             /\ fh'[i].out = OfflineResponse
             /\ fh'[i].out \notin Entries(RootDocument)
       /\ fh'[i].pc = "lookupIndex" => fh'[i].req.mode = "navigate"]_vars

\* A request that is no navigation failed on the network with nothing
\* stored for it and got the 503, while the worker's cache holds the root
\* document.
C35_Witness ==
  \E i \in Slots :
    /\ fh[i].pc = "done" /\ fh[i].net = NetworkError
    /\ fh[i].req.mode # "navigate"
    /\ Entries(fh[i].req.url) = {}
    /\ Own(fh[i].w, RootDocument) # NoResp
    /\ fh[i].out.status = 503

\* C36: the document transformIndexHtml returns is one of the documents it
\* can be given with one script added, the script that registers '/sw.js'
\* and listens for messages; a document is never returned without it.
C36_ScriptInEveryDocument ==
  html # <<>>
  => \E k \in 1 .. Len(html) :
       /\ html[k].tag = "script"
       /\ html[k].register = "/sw.js"
       /\ html[k].type # <<>>
       /\ SubSeq(html, 1, k - 1) \o SubSeq(html, k + 1, Len(html)) \in Pages

\* C37: the page reloads on a message when, and only when, the type of the
\* message is the configured updateEventName (the documented default when
\* none is configured).
C37_ReloadOnUpdateEventOnly ==
  pageEvent.handled
  => (pageEvent.reloaded
        <=> pageEvent.data =
              {Documented(options.updateEventName, <<"offline-first:update">>)})

=============================================================================
